---- MODULE Spec2Model ----
(***************************************************************************)
(* Portfolio of leveraged trades (src/portfolio.py) with the formula       *)
(* library it calls (src/calculator.py) and the session's balance reset    *)
(* (src/main.py).                                                          *)
(*                                                                         *)
(* Number representation.  The program computes in floating point; the     *)
(* model computes in exact integers and draws its inputs so that every     *)
(* division the program performs is exact (the guards Exact(..) below).    *)
(*   - money, prices, quantities: integers;                                *)
(*   - mmf (a fraction in the program) is carried in percent: 50 is 0.50;  *)
(*   - a maintenance-margin requirement is therefore carried in            *)
(*     hundredths: the model's value is 100 times the program's;           *)
(*   - a liquidation price, a quotient that is not exact in general, is    *)
(*     the reduced fraction <<num, den>>, den > 0.                         *)
(***************************************************************************)
EXTENDS Integers, Sequences, FiniteSets, TLC

VARIABLES
    initial_balance,  \* Portfolio.initial_balance
    balance,          \* Portfolio.balance (set by the constructor only)
    realized_pnl,     \* Portfolio.realized_pnl
    trades,           \* Portfolio.trades, a list of Trade objects
    next_id,          \* Trade._next_id, the class-level counter
    result            \* what the last operation returned or raised

vars == <<initial_balance, balance, realized_pnl, trades, next_id, result>>

\* The portfolio's own state: everything but the observation of the last call.
pstate == <<initial_balance, balance, realized_pnl, trades, next_id>>

-----------------------------------------------------------------------------
\* Bounds and input domains.

MaxTrades == 2

StartBalances == {100}
NewBalances == {50, 100}
Symbols == {"btc"}
Sides == {"long", "short"}
Modes == {"isolated", "cross"}
EntryPrices == {2}
TpPrices == {3}
Leverages == {2}
RiskPcts == {50}
Margins == {50}
ClosePrices == {2, 4}

\* An optional argument is a set: None (the Python default) is the empty set,
\* a supplied value v is {v}.
None == {}
Some(v) == {v}
Get(opt) == CHOOSE v \in opt : TRUE

\* The mmf argument of an open: main.py calls add_trade and
\* add_trade_fixed_margin without it, and Trade.__init__ then takes
\* get_mmf(symbol).
MmfInputs == {None}
CurrentPrices == {None, Some(4)}
\* Mark-price mappings handed to the read operations: no mapping, the empty
\* mapping, a mapping without the traded symbol, and mappings that hold it
\* (a price of 0 included).
EmptyMap == [s \in {} |-> 0]
PriceMaps ==
    { None,
      Some(EmptyMap),
      Some([s \in {"ETH"} |-> 1]),
      Some([s \in {"BTC"} |-> 4]),
      Some([s \in {"BTC"} |-> 0]) }

\* get_trade_summary is drawn a mapping from fewer: its own part is the
\* current price, the mapping only passes through to get_liquidation_price.
SummaryPriceMaps == {None, Some([s \in {"BTC"} |-> 4])}

TradeIds == 1..(MaxTrades + 1)

\* Trades constructed for other Portfolio objects of the same process: they
\* draw their ids from the same class counter, Trade._next_id.
MaxOtherTrades == 1

\* The ids a close may name when other portfolios hold ids too.
SharedTradeIds == 1..(MaxTrades + MaxOtherTrades + 1)

-----------------------------------------------------------------------------
\* Arithmetic helpers.

Abs(x) == IF x < 0 THEN -x ELSE x

\* The division a / b is exact (b # 0).
Exact(a, b) == b # 0 /\ a % Abs(b) = 0

\* a / b for an exact division, for either sign of a and b.
Quot(a, b) == IF b < 0 THEN (-a) \div (-b) ELSE a \div b

RECURSIVE GCD(_, _)
GCD(a, b) == IF b = 0 THEN a ELSE GCD(b, a % b)

\* The quotient n / d (d # 0) as a reduced fraction with positive denominator.
Frac(n, d) ==
    LET g == GCD(Abs(n), Abs(d))
        sg == IF d < 0 THEN -1 ELSE 1
    IN  <<sg * (n \div g), sg * (d \div g)>>

Zero == <<0, 1>>

\* float("inf")
Inf == <<1, 0>>

\* max(x, 0) on fractions.
FloorZero(f) == IF f[1] < 0 THEN Zero ELSE f

-----------------------------------------------------------------------------
\* Formula library.

\* str.upper() on the symbols the model draws.
Upper(symbol) ==
    CASE symbol = "btc" -> "BTC"
      [] symbol = "eth" -> "ETH"
      [] OTHER -> symbol

\* Per-symbol default maintenance-margin fractions, in percent.
DEFAULT_MMF == [s \in {"BTC", "ETH"} |-> 3]
FALLBACK_MMF == 5

get_mmf(symbol) ==
    IF Upper(symbol) \in DOMAIN DEFAULT_MMF
    THEN DEFAULT_MMF[Upper(symbol)]
    ELSE FALLBACK_MMF

\* The inputs on which calc_position_size computes without rounding: the
\* code evaluates balance * (risk_pct / 100) in binary floating point, and
\* risk_pct / 100 is a binary fraction only when risk_pct is a multiple of 25
\* (7 / 100 is not: 100 * (7 / 100) is 7.000000000000001). The opens are
\* modelled on these inputs only, and on a whole margin.
ExactPct(bal, risk_pct) == risk_pct % 25 = 0 /\ Exact(bal * risk_pct, 100)

\* margin = balance * (risk_pct / 100); position_size = margin * leverage,
\* for ExactPct(bal, risk_pct).
calc_position_size(bal, risk_pct, leverage) ==
    LET margin == Quot(bal * risk_pct, 100)
    IN  <<margin, margin * leverage>>

\* A slip of precedence: the quantity multiplies one price, not the
\* difference of the two.
calc_pnl_precedence_slip(entry_price, current_price, qty, side) ==
    IF side = "long"
    THEN current_price - entry_price * qty
    ELSE entry_price - current_price * qty

\* A slip: the two sides exchanged.
calc_pnl_sides_swapped(entry_price, current_price, qty, side) ==
    IF side = "long"
    THEN (entry_price - current_price) * qty
    ELSE (current_price - entry_price) * qty

calc_pnl(entry_price, current_price, qty, side) ==
    IF side = "long"
    THEN (current_price - entry_price) * qty
    ELSE (entry_price - current_price) * qty

\* MMR = |qty| * price * mmf, in hundredths.
calc_mmr(qty, price, mmf) == Abs(qty) * price * mmf

\* s = +qty for a long, -qty for a short; the denominator |s|*mmf - s, times 100.
SignedQty(qty, side) == IF side = "long" THEN qty ELSE -qty
LiqDenominator(qty, side, mmf) ==
    Abs(SignedQty(qty, side)) * mmf - 100 * SignedQty(qty, side)

calc_liquidation_isolated(entry_price, qty, side, margin, mmf) ==
    LET s == SignedQty(qty, side)
        d == LiqDenominator(qty, side, mmf)
    IN  IF d = 0 THEN Zero
        ELSE FloorZero(Frac(100 * (margin - s * entry_price), d))

\* What a call returns or raises: the status and, when it is "ok", the value.
Value(liq) == [status |-> "ok", liq |-> liq]
Raised(status) == [status |-> status, liq |-> Zero]

-----------------------------------------------------------------------------
\* Trade.

\* Trade.__init__ with the quantity taken from the margin alone, the leverage
\* left out.
Trade_qty_from_margin(id, symbol, side, mode, entry_price, tp_price, margin, leverage, mmf) ==
    [ id |-> id,
      symbol |-> Upper(symbol),
      side |-> side,
      mode |-> mode,
      entry_price |-> entry_price,
      tp_price |-> tp_price,
      margin |-> margin,
      leverage |-> leverage,
      position_size |-> margin * leverage,
      qty |-> Quot(margin, entry_price),
      mmf |-> IF mmf # None THEN Get(mmf) ELSE get_mmf(symbol),
      is_open |-> TRUE,
      realized_pnl |-> 0 ]

\* Trade.__init__ with the counter at `id`.
Trade(id, symbol, side, mode, entry_price, tp_price, margin, leverage, mmf) ==
    [ id |-> id,
      symbol |-> Upper(symbol),
      side |-> side,
      mode |-> mode,
      entry_price |-> entry_price,
      tp_price |-> tp_price,
      margin |-> margin,
      leverage |-> leverage,
      position_size |-> margin * leverage,
      qty |-> Quot(margin * leverage, entry_price),
      mmf |-> IF mmf # None THEN Get(mmf) ELSE get_mmf(symbol),
      is_open |-> TRUE,
      realized_pnl |-> 0 ]

unrealized_pnl(t, current_price) ==
    IF ~t.is_open THEN 0
    ELSE calc_pnl(t.entry_price, current_price, t.qty, t.side)

\* `price or self.entry_price`: None and 0 are both falsy.
maintenance_margin_req(t, price) ==
    LET p == IF price = None \/ Get(price) = 0 THEN t.entry_price ELSE Get(price)
    IN  calc_mmr(t.qty, p, t.mmf)

\* calc_pnl_at_tp: <<pnl, roi>>, roi a fraction (0 when margin <= 0).
calc_pnl_at_tp(entry_price, tp_price, margin, leverage, side) ==
    LET qty == Quot(margin * leverage, entry_price)
        pnl == IF side = "long"
               THEN (tp_price - entry_price) * qty
               ELSE (entry_price - tp_price) * qty
    IN  <<pnl, IF margin > 0 THEN Frac(pnl * 100, margin) ELSE Zero>>

\* calc_risk_reward with the liquidation price a fraction: the ratio as a
\* fraction, or Inf when risk <= 0.
calc_risk_reward(entry_price, tp_price, liq_price, side) ==
    LET reward == IF side = "long" THEN tp_price - entry_price
                  ELSE entry_price - tp_price
        \* risk = risk_num / liq_price[2]
        risk_num == IF side = "long"
                    THEN entry_price * liq_price[2] - liq_price[1]
                    ELSE liq_price[1] - entry_price * liq_price[2]
    IN  IF risk_num <= 0 THEN Inf
        ELSE Frac(reward * liq_price[2], risk_num)

pnl_at_tp(t) ==
    calc_pnl_at_tp(t.entry_price, t.tp_price, t.margin, t.leverage, t.side)

\* Trade.to_dict; the two keys present only with a current price are optional.
to_dict(t, current_price) ==
    [ id |-> t.id, symbol |-> t.symbol, side |-> t.side, mode |-> t.mode,
      entry |-> t.entry_price, tp |-> t.tp_price, margin |-> t.margin,
      leverage |-> t.leverage, size |-> t.position_size, qty |-> t.qty,
      mmf |-> t.mmf, pnl_at_tp |-> pnl_at_tp(t)[1], roi_at_tp |-> pnl_at_tp(t)[2],
      open |-> t.is_open,
      current_price |-> current_price,
      unrealized_pnl |-> IF current_price # None
                         THEN Some(unrealized_pnl(t, Get(current_price)))
                         ELSE None ]

-----------------------------------------------------------------------------
\* Portfolio: derived quantities.

total_balance == initial_balance + realized_pnl

open_trades == SelectSeq(trades, LAMBDA t : t.is_open)

RECURSIVE SumMargin(_, _)
SumMargin(ts, mode) ==
    IF ts = <<>> THEN 0
    ELSE (IF Head(ts).mode = mode THEN Head(ts).margin ELSE 0)
         + SumMargin(Tail(ts), mode)

isolated_margin_used == SumMargin(open_trades, "isolated")
cross_margin_used == SumMargin(open_trades, "cross")
total_margin_used == isolated_margin_used + cross_margin_used
available_balance == total_balance - total_margin_used

\* _get_trade: the first trade of the list with that id, if any.
HasTrade(trade_id) == \E i \in DOMAIN trades : trades[i].id = trade_id
TradeIndex(trade_id) ==
    CHOOSE i \in DOMAIN trades :
        /\ trades[i].id = trade_id
        /\ \A j \in 1..(i - 1) : trades[j].id # trade_id
get_trade(trade_id) == trades[TradeIndex(trade_id)]

\* `prices.get(symbol) if prices else None`
PricesGet(prices, symbol) ==
    IF prices # None /\ Get(prices) # EmptyMap /\ symbol \in DOMAIN Get(prices)
    THEN Some(Get(prices)[symbol])
    ELSE None

\* The price _calc_mmr_other evaluates trade t at: the entry price, replaced
\* by prices[t.symbol] `if prices and t.symbol in prices`.
MmrPrice(t, prices) ==
    IF PricesGet(prices, t.symbol) # None
    THEN PricesGet(prices, t.symbol)
    ELSE Some(t.entry_price)

\* The loop of _calc_mmr_other over a list of trades.
RECURSIVE MmrOtherLoop(_, _, _)
MmrOtherLoop(ts, exclude_trade_id, prices) ==
    IF ts = <<>> THEN 0
    ELSE LET t == Head(ts)
             rest == MmrOtherLoop(Tail(ts), exclude_trade_id, prices)
         IN  IF t.id = exclude_trade_id THEN rest
             ELSE maintenance_margin_req(t, MmrPrice(t, prices)) + rest

\* A slip: the loop without its `continue` for the excluded trade.
calc_mmr_other_with_self(exclude_trade_id, prices) ==
    MmrOtherLoop(open_trades, 0, prices)

calc_mmr_other(exclude_trade_id, prices) ==
    MmrOtherLoop(open_trades, exclude_trade_id, prices)

\* A slip: the cross branch taken whatever the mode.
get_liquidation_price_cross_only(trade_id, prices) ==
    Raised("TypeError")

\* get_liquidation_price for an id the portfolio holds. The cross branch
\* computes mmr_o and then calls calc_liquidation_cross with six arguments;
\* the function of calculator.py takes five (entry_price, leverage, side,
\* trade_margin, available_balance), so the call raises TypeError before any
\* of its body runs, for an open and for a closed cross position alike.
get_liquidation_price(trade_id, prices) ==
    LET trade == get_trade(trade_id)
    IN  IF trade.mode = "isolated"
        THEN Value(calc_liquidation_isolated(
                 trade.entry_price, trade.qty, trade.side, trade.margin, trade.mmf))
        ELSE Raised("TypeError")

\* What a summary call returns or raises: the status and, when it is "ok",
\* the records returned.
Records(out) == [status |-> "ok", out |-> out]
RaisedNoRecords(status) == [status |-> status, out |-> <<>>]

\* get_trade_summary for an id the portfolio holds: the TypeError of
\* get_liquidation_price passes through it.
get_trade_summary(trade_id, current_price, prices) ==
    LET trade == get_trade(trade_id)
        r == get_liquidation_price(trade_id, prices)
        liq == r.liq
        rr == calc_risk_reward(trade.entry_price, trade.tp_price, liq, trade.side)
    IN  IF r.status # "ok" THEN RaisedNoRecords(r.status)
        ELSE Records(<< [ d |-> to_dict(trade, current_price),
                          liquidation_price |-> liq,
                          risk_reward |-> rr,
                          max_loss |-> IF trade.mode = "isolated" THEN trade.margin
                                       ELSE total_balance ] >>)

\* The loop of portfolio_summary: the total_unrealized and trade_summaries
\* it ends with, or the error that ends it.
RECURSIVE SummaryLoop(_, _, _, _)
SummaryLoop(ts, prices, total_unrealized, trade_summaries) ==
    IF ts = <<>>
    THEN [status |-> "ok", total_unrealized |-> total_unrealized,
          trade_summaries |-> trade_summaries]
    ELSE LET trade == Head(ts)
             cp == PricesGet(prices, trade.symbol)
             summary == get_trade_summary(trade.id, cp, prices)
         IN  IF summary.status # "ok"
             THEN [status |-> summary.status, total_unrealized |-> 0,
                   trade_summaries |-> <<>>]
             ELSE SummaryLoop(Tail(ts), prices,
                      total_unrealized
                        + (IF cp # None
                           THEN Get(summary.out[1].d.unrealized_pnl) ELSE 0),
                      trade_summaries \o summary.out)

portfolio_summary(prices) ==
    LET loop == SummaryLoop(open_trades, prices, 0, <<>>)
    IN  IF loop.status # "ok" THEN RaisedNoRecords(loop.status)
        ELSE Records(<< [ initial_balance |-> initial_balance,
                          total_balance |-> total_balance,
                          available_balance |-> available_balance,
                          total_margin_used |-> total_margin_used,
                          isolated_margin |-> isolated_margin_used,
                          cross_margin |-> cross_margin_used,
                          realized_pnl |-> realized_pnl,
                          unrealized_pnl |-> loop.total_unrealized,
                          equity |-> total_balance + loop.total_unrealized,
                          open_trades |-> Len(open_trades),
                          total_trades |-> Len(trades),
                          trades |-> loop.trade_summaries ] >>)

\* The loop of rebalance_summary over a list of open trades: the results it
\* ends with, or the error that ends it.
RECURSIVE RebalanceLoop(_, _, _)
RebalanceLoop(ts, prices, results) ==
    IF ts = <<>> THEN Records(results)
    ELSE LET trade == Head(ts)
             new_liq == get_liquidation_price(trade.id, prices)
         IN  IF trade.mode # "cross"
             THEN RebalanceLoop(Tail(ts), prices, results)
             ELSE IF new_liq.status # "ok" THEN RaisedNoRecords(new_liq.status)
             ELSE RebalanceLoop(Tail(ts), prices,
                      Append(results,
                             [ id |-> trade.id,
                               symbol |-> trade.symbol,
                               side |-> trade.side,
                               entry |-> trade.entry_price,
                               new_liquidation |-> new_liq.liq,
                               current_price |-> PricesGet(prices, trade.symbol) ]))

rebalance_summary(prices) == RebalanceLoop(open_trades, prices, <<>>)

-----------------------------------------------------------------------------
\* What the last call was and what it returned or raised: id is the trade id
\* it was given (0 when it takes none), arg the sizing value of an open, the
\* close price of a close or the new balance of a reset, num a returned
\* number (a trade id, a P&L), liq a returned liquidation price, out the
\* returned records.

Returned(op, status, id, arg, num, liq, out) ==
    [ op |-> op, status |-> status, id |-> id, arg |-> arg,
      num |-> num, liq |-> liq, out |-> out ]

Init ==
    /\ initial_balance \in StartBalances
    /\ balance = initial_balance
    /\ realized_pnl = 0
    /\ trades = <<>>
    /\ next_id = 1
    /\ result = Returned("init", "ok", 0, 0, 0, Zero, <<>>)

-----------------------------------------------------------------------------
\* Portfolio: operations.

\* A slip: the class counter not advanced by a stored Trade, so that the next
\* Trade is given the same id.
add_trade_keeps_counter(symbol, side, mode, entry_price, tp_price, risk_pct, leverage, mmf) ==
    /\ ExactPct(total_balance, risk_pct)
    /\ LET margin == calc_position_size(total_balance, risk_pct, leverage)[1]
       IN  IF margin > available_balance
           THEN /\ result' = Returned("add_trade", "InsufficientBalance", 0,
                                      risk_pct, 0, Zero, <<>>)
                /\ UNCHANGED pstate
           ELSE /\ Len(trades) < MaxTrades
                /\ Exact(margin * leverage, entry_price)
                /\ trades' = Append(trades,
                       Trade(next_id, symbol, side, mode, entry_price, tp_price,
                             margin, leverage, mmf))
                /\ result' = Returned("add_trade", "ok", next_id, risk_pct,
                                      next_id, Zero, <<>>)
                /\ UNCHANGED <<initial_balance, balance, realized_pnl, next_id>>

\* A slip: the admission test with >= for >, which turns away a margin equal
\* to the available balance.
add_trade_reject_at_equal(symbol, side, mode, entry_price, tp_price, risk_pct, leverage, mmf) ==
    /\ ExactPct(total_balance, risk_pct)
    /\ LET margin == calc_position_size(total_balance, risk_pct, leverage)[1]
       IN  IF margin >= available_balance
           THEN /\ result' = Returned("add_trade", "InsufficientBalance", 0,
                                      risk_pct, 0, Zero, <<>>)
                /\ UNCHANGED pstate
           ELSE /\ Len(trades) < MaxTrades
                /\ Exact(margin * leverage, entry_price)
                /\ trades' = Append(trades,
                       Trade(next_id, symbol, side, mode, entry_price, tp_price,
                             margin, leverage, mmf))
                /\ next_id' = next_id + 1
                /\ result' = Returned("add_trade", "ok", next_id, risk_pct,
                                      next_id, Zero, <<>>)
                /\ UNCHANGED <<initial_balance, balance, realized_pnl>>

add_trade(symbol, side, mode, entry_price, tp_price, risk_pct, leverage, mmf) ==
    /\ ExactPct(total_balance, risk_pct)
    /\ LET margin == calc_position_size(total_balance, risk_pct, leverage)[1]
       IN  IF margin > available_balance
           THEN /\ result' = Returned("add_trade", "InsufficientBalance", 0,
                                      risk_pct, 0, Zero, <<>>)
                /\ UNCHANGED pstate
           ELSE /\ Len(trades) < MaxTrades
                /\ Exact(margin * leverage, entry_price)
                /\ trades' = Append(trades,
                       Trade(next_id, symbol, side, mode, entry_price, tp_price,
                             margin, leverage, mmf))
                /\ next_id' = next_id + 1
                /\ result' = Returned("add_trade", "ok", next_id, risk_pct, next_id, Zero, <<>>)
                /\ UNCHANGED <<initial_balance, balance, realized_pnl>>

\* A slip: the Trade constructed before the admission test, so that a
\* rejected open has already drawn an id from the counter.
add_trade_fixed_margin_constructs_first(symbol, side, mode, entry_price, tp_price, margin, leverage, mmf) ==
    IF margin > available_balance
    THEN /\ result' = Returned("add_trade_fixed_margin", "InsufficientBalance", 0,
                               margin, 0, Zero, <<>>)
         /\ next_id' = next_id + 1
         /\ UNCHANGED <<initial_balance, balance, realized_pnl, trades>>
    ELSE /\ Len(trades) < MaxTrades
         /\ Exact(margin * leverage, entry_price)
         /\ trades' = Append(trades,
                Trade(next_id, symbol, side, mode, entry_price, tp_price,
                      margin, leverage, mmf))
         /\ next_id' = next_id + 1
         /\ result' = Returned("add_trade_fixed_margin", "ok", next_id, margin,
                               next_id, Zero, <<>>)
         /\ UNCHANGED <<initial_balance, balance, realized_pnl>>

add_trade_fixed_margin(symbol, side, mode, entry_price, tp_price, margin, leverage, mmf) ==
    IF margin > available_balance
    THEN /\ result' = Returned("add_trade_fixed_margin", "InsufficientBalance", 0,
                               margin, 0, Zero, <<>>)
         /\ UNCHANGED pstate
    ELSE /\ Len(trades) < MaxTrades
         /\ Exact(margin * leverage, entry_price)
         /\ trades' = Append(trades,
                Trade(next_id, symbol, side, mode, entry_price, tp_price,
                      margin, leverage, mmf))
         /\ next_id' = next_id + 1
         /\ result' = Returned("add_trade_fixed_margin", "ok", next_id, margin, next_id, Zero, <<>>)
         /\ UNCHANGED <<initial_balance, balance, realized_pnl>>

\* A slip: close_trade without its already-closed test.
close_trade_unchecked(trade_id, close_price) ==
    IF ~HasTrade(trade_id)
    THEN /\ result' = Returned("close_trade", "NotFound", trade_id, close_price,
                               0, Zero, <<>>)
         /\ UNCHANGED pstate
    ELSE LET i == TradeIndex(trade_id)
             pnl == unrealized_pnl(trades[i], close_price)
         IN  /\ trades' = [trades EXCEPT ![i].realized_pnl = pnl,
                                         ![i].is_open = FALSE]
             /\ realized_pnl' = realized_pnl + pnl
             /\ result' = Returned("close_trade", "ok", trade_id, close_price,
                                   pnl, Zero, <<>>)
             /\ UNCHANGED <<initial_balance, balance, next_id>>

\* A slip: the already-closed test inverted into a reopening toggle.
close_trade_toggles(trade_id, close_price) ==
    IF ~HasTrade(trade_id)
    THEN /\ result' = Returned("close_trade", "NotFound", trade_id, close_price,
                               0, Zero, <<>>)
         /\ UNCHANGED pstate
    ELSE LET i == TradeIndex(trade_id)
             trade == trades[i]
             pnl == calc_pnl(trade.entry_price, close_price, trade.qty, trade.side)
         IN  /\ trades' = [trades EXCEPT ![i].realized_pnl = pnl,
                                         ![i].is_open = ~trade.is_open]
             /\ realized_pnl' = realized_pnl + pnl
             /\ result' = Returned("close_trade", "ok", trade_id, close_price,
                                   pnl, Zero, <<>>)
             /\ UNCHANGED <<initial_balance, balance, next_id>>

\* A slip: the lookup handing back the last position it examined when no id
\* matched, for raising not-found.
close_trade_falls_back_to_last(trade_id, close_price) ==
    IF ~HasTrade(trade_id) /\ trades = <<>>
    THEN /\ result' = Returned("close_trade", "NotFound", trade_id, close_price, 0, Zero, <<>>)
         /\ UNCHANGED pstate
    ELSE LET i == IF HasTrade(trade_id) THEN TradeIndex(trade_id) ELSE Len(trades)
             trade == trades[i]
             pnl == unrealized_pnl(trade, close_price)
         IN  IF ~trade.is_open
             THEN /\ result' = Returned("close_trade", "AlreadyClosed", trade_id,
                                        close_price, 0, Zero, <<>>)
                  /\ UNCHANGED pstate
             ELSE /\ trades' = [trades EXCEPT ![i].realized_pnl = pnl,
                                              ![i].is_open = FALSE]
                  /\ realized_pnl' = realized_pnl + pnl
                  /\ result' = Returned("close_trade", "ok", trade_id, close_price, pnl, Zero, <<>>)
                  /\ UNCHANGED <<initial_balance, balance, next_id>>

close_trade(trade_id, close_price) ==
    IF ~HasTrade(trade_id)
    THEN /\ result' = Returned("close_trade", "NotFound", trade_id, close_price, 0, Zero, <<>>)
         /\ UNCHANGED pstate
    ELSE LET i == TradeIndex(trade_id)
             trade == trades[i]
             pnl == unrealized_pnl(trade, close_price)
         IN  IF ~trade.is_open
             THEN /\ result' = Returned("close_trade", "AlreadyClosed", trade_id,
                                        close_price, 0, Zero, <<>>)
                  /\ UNCHANGED pstate
             ELSE /\ trades' = [trades EXCEPT ![i].realized_pnl = pnl,
                                              ![i].is_open = FALSE]
                  /\ realized_pnl' = realized_pnl + pnl
                  /\ result' = Returned("close_trade", "ok", trade_id, close_price, pnl, Zero, <<>>)
                  /\ UNCHANGED <<initial_balance, balance, next_id>>

GetLiquidationPrice(trade_id, prices) ==
    /\ result' = IF ~HasTrade(trade_id)
                 THEN Returned("get_liquidation_price", "NotFound", trade_id, 0,
                               0, Zero, <<>>)
                 ELSE LET r == get_liquidation_price(trade_id, prices)
                      IN  Returned("get_liquidation_price", r.status, trade_id,
                                   0, 0, r.liq, <<>>)
    /\ UNCHANGED pstate

GetTradeSummary(trade_id, current_price, prices) ==
    /\ result' = IF ~HasTrade(trade_id)
                 THEN Returned("get_trade_summary", "NotFound", trade_id, 0,
                               0, Zero, <<>>)
                 ELSE LET r == get_trade_summary(trade_id, current_price, prices)
                      IN  Returned("get_trade_summary", r.status, trade_id,
                                   0, 0, Zero, r.out)
    /\ UNCHANGED pstate

\* A slip: the summary booking the unrealized P&L it has just totalled.
PortfolioSummaryBooksPnl(prices) ==
    /\ LET r == portfolio_summary(prices)
       IN  /\ result' = Returned("portfolio_summary", r.status, 0, 0, 0, Zero, r.out)
           /\ realized_pnl' = realized_pnl
                  + (IF r.status = "ok" THEN r.out[1].unrealized_pnl ELSE 0)
    /\ UNCHANGED <<initial_balance, balance, trades, next_id>>

PortfolioSummary(prices) ==
    /\ LET r == portfolio_summary(prices)
       IN  result' = Returned("portfolio_summary", r.status, 0, 0, 0, Zero, r.out)
    /\ UNCHANGED pstate

RebalanceSummary(prices) ==
    /\ LET r == rebalance_summary(prices)
       IN  result' = Returned("rebalance_summary", r.status, 0, 0, 0, Zero, r.out)
    /\ UNCHANGED pstate

\* Menu choice 7 of the session loop.
SetNewBalance(new_bal) ==
    /\ initial_balance' = new_bal
    /\ realized_pnl' = 0
    /\ result' = Returned("set_new_balance", "ok", 0, new_bal, 0,
                          Zero, <<>>)
    /\ UNCHANGED <<balance, trades, next_id>>

\* A Trade stored by another Portfolio of the same process. Of the state
\* modelled here it touches the class counter only: Trade.__init__ takes the
\* id from Trade._next_id and advances it. The other portfolio's rejected
\* opens and its closes construct no Trade and touch nothing shared.
OtherPortfolioAddTrade ==
    /\ next_id - 1 - Len(trades) < MaxOtherTrades
    /\ next_id' = next_id + 1
    /\ result' = Returned("other_add_trade", "ok", next_id, 0, next_id,
                          Zero, <<>>)
    /\ UNCHANGED <<initial_balance, balance, realized_pnl, trades>>

-----------------------------------------------------------------------------
\* Specifications.

Open ==
    \E symbol \in Symbols, side \in Sides, mode \in Modes,
       entry_price \in EntryPrices, tp_price \in TpPrices,
       leverage \in Leverages, mmf \in MmfInputs :
        \/ \E risk_pct \in RiskPcts :
               add_trade(symbol, side, mode, entry_price, tp_price, risk_pct,
                         leverage, mmf)
        \/ \E margin \in Margins :
               add_trade_fixed_margin(symbol, side, mode, entry_price, tp_price,
                                      margin, leverage, mmf)

Close == \E trade_id \in TradeIds, close_price \in ClosePrices :
             close_trade(trade_id, close_price)

Read ==
    \/ \E trade_id \in TradeIds, prices \in PriceMaps :
           GetLiquidationPrice(trade_id, prices)
    \/ \E trade_id \in TradeIds, current_price \in CurrentPrices,
          prices \in SummaryPriceMaps :
           GetTradeSummary(trade_id, current_price, prices)
    \/ \E prices \in PriceMaps : PortfolioSummary(prices)
    \/ \E prices \in PriceMaps : RebalanceSummary(prices)

Reset == \E new_bal \in NewBalances : SetNewBalance(new_bal)

\* The Portfolio's operations, called in any order by the code that holds
\* the Portfolio.
Next == Open \/ Close \/ Read

Spec == Init /\ [][Next]_vars

\* The Portfolio's operations together with the assignments main.py makes to
\* the Portfolio's attributes (its balance reset).
NextSession == Next \/ Reset

SpecSession == Init /\ [][NextSession]_vars

CloseShared == \E trade_id \in SharedTradeIds, close_price \in ClosePrices :
                   close_trade(trade_id, close_price)

OtherPortfolioOpen == OtherPortfolioAddTrade

\* One portfolio's opens and closes, interleaved with the Trades that other
\* portfolios of the process construct.
NextShared == Open \/ CloseShared \/ OtherPortfolioOpen

SpecShared == Init /\ [][NextShared]_vars

-----------------------------------------------------------------------------
\* Properties.

OpenOps == {"add_trade", "add_trade_fixed_margin"}
ReadOps == {"get_liquidation_price", "get_trade_summary", "portfolio_summary",
            "rebalance_summary"}

RECURSIVE SumClosedPnl(_)
SumClosedPnl(ts) ==
    IF ts = <<>> THEN 0
    ELSE (IF Head(ts).is_open THEN 0 ELSE Head(ts).realized_pnl)
         + SumClosedPnl(Tail(ts))

\* The sum, over the positions of trades whose index is in S, of the
\* maintenance requirement at the price the mapping gives.
RECURSIVE MmrSum(_, _)
MmrSum(S, prices) ==
    IF S = {} THEN 0
    ELSE LET i == CHOOSE k \in S : TRUE
         IN  maintenance_margin_req(trades[i], MmrPrice(trades[i], prices))
             + MmrSum(S \ {i}, prices)

\* C1: available_balance (total_balance minus the margins of all open
\* positions) is >= 0 after every open and close, whatever the close price.
C1_AvailableBalanceNonNegative == available_balance >= 0

\* C2: an open rejected for insufficient balance leaves the whole state as
\* it was: the trades list with every field of every position, realized_pnl,
\* initial_balance, the total and available balance, and the next id.
C2_RejectedOpenChangesNothing ==
    [][ (result'.op \in OpenOps /\ result'.status = "InsufficientBalance")
        => /\ trades' = trades
           /\ realized_pnl' = realized_pnl
           /\ initial_balance' = initial_balance
           /\ balance' = balance
           /\ next_id' = next_id
           /\ total_balance' = total_balance
           /\ available_balance' = available_balance ]_vars

\* An open was rejected while the portfolio held an open position.
C2_Witness ==
    /\ result.op \in OpenOps
    /\ result.status = "InsufficientBalance"
    /\ Len(open_trades) >= 1

\* The candidate margin of the open the step has just made, from the state
\* before it: total_balance * risk_pct / 100, or the fixed margin given.
CandidateMargin(r) ==
    IF r.op = "add_trade" THEN Quot(total_balance * r.arg, 100) ELSE r.arg

\* C3: an open is rejected exactly when its candidate margin exceeds the
\* available balance before it; otherwise exactly one new open position with
\* that margin is appended and the available balance falls by that margin.
C3_AdmissionExactlyByMargin ==
    [][ result'.op \in OpenOps =>
        LET m == CandidateMargin(result')
        IN  /\ result'.status \in {"ok", "InsufficientBalance"}
            /\ (result'.status = "InsufficientBalance") <=> (m > available_balance)
            /\ result'.status = "ok" =>
                 /\ Len(trades') = Len(trades) + 1
                 /\ SubSeq(trades', 1, Len(trades)) = trades
                 /\ trades'[Len(trades')].is_open
                 /\ trades'[Len(trades')].margin = m
                 /\ Len(open_trades') = Len(open_trades) + 1
                 /\ available_balance' = available_balance - m ]_vars

\* A risk-percentage open was admitted with a margin equal to the whole
\* available balance, next to a position already open.
C3_Witness ==
    /\ result.op = "add_trade"
    /\ result.status = "ok"
    /\ Len(open_trades) = 2
    /\ available_balance = 0

\* C4: once a position is closed, every later close_trade on its id fails
\* with the already-closed error and changes neither the portfolio's
\* realized_pnl nor the position's realized_pnl or is_open.
C4_SecondCloseFails ==
    [][ ( /\ result'.op = "close_trade"
          /\ HasTrade(result'.id)
          /\ ~get_trade(result'.id).is_open )
        => /\ result'.status = "AlreadyClosed"
           /\ realized_pnl' = realized_pnl
           /\ trades' = trades ]_vars

\* A close was refused on a position closed earlier at a profit or a loss.
C4_Witness ==
    /\ result.op = "close_trade"
    /\ result.status = "AlreadyClosed"
    /\ get_trade(result.id).realized_pnl # 0

\* C5: the portfolio's realized_pnl is the sum of realized_pnl over its
\* closed positions, and total_balance is initial_balance plus that sum, in
\* every state, the balance reset included.
C5_RealizedPnlIsSumOfClosed ==
    /\ realized_pnl = SumClosedPnl(trades)
    /\ total_balance = initial_balance + SumClosedPnl(trades)

\* The indices of the open positions other than i, and those in cross mode.
OtherOpen(i) == {j \in DOMAIN trades : j # i /\ trades[j].is_open}
OtherOpenCross(i) == {j \in OtherOpen(i) : trades[j].mode = "cross"}

\* C6 as stated: a cross position's mmrOther sums the maintenance
\* requirements of the other open cross positions only; isolated positions
\* contribute nothing.
C6_MmrOtherCrossOnly ==
    \A i \in DOMAIN trades, prices \in PriceMaps :
        trades[i].mode = "cross" =>
            calc_mmr_other(trades[i].id, prices) = MmrSum(OtherOpenCross(i), prices)

\* C6 amended: a cross position's mmrOther sums the maintenance requirements
\* of all the other open positions, isolated ones included; the position
\* itself and closed positions contribute nothing.
C6_MmrOtherAllOtherOpen ==
    \A i \in DOMAIN trades, prices \in PriceMaps :
        trades[i].mode = "cross" =>
            calc_mmr_other(trades[i].id, prices) = MmrSum(OtherOpen(i), prices)

\* An open cross position next to an open isolated one.
C6_Witness ==
    \E i, j \in DOMAIN trades :
        /\ trades[i].mode = "cross" /\ trades[i].is_open
        /\ trades[j].mode = "isolated" /\ trades[j].is_open
        /\ calc_mmr_other(trades[i].id, None) > 0

\* The liquidation formula's inputs: the position's own fixed fields.
OwnFields(t) == <<t.id, t.mode, t.entry_price, t.qty, t.side, t.margin, t.mmf>>

\* C7: for an open isolated position get_liquidation_price returns, in
\* every state and for every mark-price mapping, the value the isolated
\* formula gives for the position's own entry price, quantity, side, margin
\* and MMF; and no step (an open or a close of any position, winning or
\* losing, or a read) changes those fields.  So the value is the same in
\* every state the position is open in.
C7_IsolatedLiquidationFixed ==
    /\ [](\A i \in DOMAIN trades, prices \in PriceMaps :
            (trades[i].mode = "isolated" /\ trades[i].is_open)
            => get_liquidation_price(trades[i].id, prices)
                 = Value(calc_liquidation_isolated(
                       trades[i].entry_price, trades[i].qty, trades[i].side,
                       trades[i].margin, trades[i].mmf)))
    /\ [][ \A i \in DOMAIN trades :
             trades[i].mode = "isolated"
             => i \in DOMAIN trades' /\ OwnFields(trades'[i]) = OwnFields(trades[i])
          ]_vars

\* An isolated position is open after another position was closed at a
\* profit or a loss.
C7_Witness ==
    \E i, j \in DOMAIN trades :
        /\ trades[i].mode = "isolated" /\ trades[i].is_open
        /\ ~trades[j].is_open /\ trades[j].realized_pnl # 0
        /\ result.op = "close_trade" /\ result.status = "ok"

\* The ids of a list of records.
Ids(rs) == [k \in DOMAIN rs |-> rs[k].id]

\* C8: in every state rebalance_summary(prices) returns, with exactly one
\* entry for each open cross position, in id order, none for an isolated or
\* closed position, and each entry's new_liquidation is what
\* get_liquidation_price(id, prices) returns in that state.
C8_RebalanceListsOpenCross ==
    \A prices \in PriceMaps :
        LET r == rebalance_summary(prices)
        IN  /\ r.status = "ok"
            /\ Ids(r.out) = Ids(SelectSeq(trades,
                                LAMBDA t : t.is_open /\ t.mode = "cross"))
            /\ \A k \in 1..(Len(r.out) - 1) : r.out[k].id < r.out[k + 1].id
            /\ \A k \in DOMAIN r.out :
                  get_liquidation_price(r.out[k].id, prices)
                    = Value(r.out[k].new_liquidation)

\* C9: the read operations change nothing: the trades list, every
\* position's fields, realized_pnl, initial_balance and the id counter are
\* as before.
C9_ReadsChangeNothing ==
    [][ result'.op \in ReadOps
        => /\ trades' = trades
           /\ realized_pnl' = realized_pnl
           /\ initial_balance' = initial_balance
           /\ balance' = balance
           /\ next_id' = next_id ]_vars

\* portfolio_summary returned a nonzero unrealized P&L.
C9_Witness ==
    /\ result.op = "portfolio_summary"
    /\ result.status = "ok"
    /\ result.out[1].unrealized_pnl # 0
    /\ Len(open_trades) >= 1

\* C10: a closed position stays in the list, closed, with every field as
\* it was, across every step.
C10_ClosedIsTerminal ==
    [][ \A i \in DOMAIN trades :
          ~trades[i].is_open
          => /\ i \in DOMAIN trades'
             /\ ~trades'[i].is_open
             /\ trades'[i] = trades[i] ]_vars

\* A position was opened after an earlier one had been closed and a second
\* close of it refused.
C10_Witness ==
    /\ Len(trades) = 2
    /\ ~trades[1].is_open /\ trades[1].realized_pnl # 0
    /\ trades[2].is_open
    /\ result.op = "close_trade" /\ result.status = "AlreadyClosed"

\* C11: every position the portfolio holds has margin > 0, and so
\* position_size > 0 and qty > 0, whatever valid opens and closes at positive
\* prices came before.
C11_MarginPositive ==
    \A i \in DOMAIN trades :
        /\ trades[i].margin > 0
        /\ trades[i].position_size > 0
        /\ trades[i].qty > 0

\* The fields of a position that fix its size.
SizingFields(t) == <<t.margin, t.leverage, t.entry_price, t.position_size, t.qty>>

\* C12: in every state, every position has position_size = margin * leverage
\* and qty = position_size / entry_price, and no open, close or read changes a
\* stored position's margin, leverage, entry_price, position_size or qty.
C12_SizingFixedAtOpen ==
    /\ [](\A i \in DOMAIN trades :
             /\ trades[i].position_size = trades[i].margin * trades[i].leverage
             /\ trades[i].qty * trades[i].entry_price = trades[i].position_size)
    /\ [][\A i \in DOMAIN trades :
             /\ i \in DOMAIN trades'
             /\ SizingFields(trades'[i]) = SizingFields(trades[i])]_vars

\* A position opened with a positive size has been closed at a loss or a gain,
\* a second one was opened after it, and a read has just run.
C12_Witness ==
    /\ result.op \in ReadOps
    /\ Len(trades) = 2
    /\ ~trades[1].is_open
    /\ trades[1].realized_pnl # 0
    /\ trades[1].qty > 0
    /\ trades[2].is_open
    /\ trades[2].qty > 0

\* C13: the positions list is append-only and ordered by id. In every state
\* the ids grow strictly along the list (so they are pairwise distinct) and lie
\* below the counter; a step never removes or reorders a position, stores at
\* most one and gives it the counter's value, which no earlier Trade of any
\* portfolio of the process was given; the counter advances by one with every
\* Trade stored, here or in another portfolio, and stays put on a rejected
\* open and on a close.
C13_IdsAppendOnly ==
    /\ [](/\ \A i, j \in DOMAIN trades : i < j => trades[i].id < trades[j].id
          /\ \A i \in DOMAIN trades : trades[i].id < next_id
          /\ result.op = "other_add_trade" =>
                 /\ result.num < next_id
                 /\ \A i \in DOMAIN trades : trades[i].id # result.num)
    /\ [][/\ Len(trades') \in {Len(trades), Len(trades) + 1}
          /\ \A i \in DOMAIN trades : trades'[i].id = trades[i].id
          /\ Len(trades') = Len(trades) + 1 =>
                 /\ trades'[Len(trades')].id = next_id
                 /\ next_id' = next_id + 1
          /\ result'.op = "other_add_trade" =>
                 /\ result'.num = next_id
                 /\ next_id' = next_id + 1
          /\ (Len(trades') = Len(trades) /\ result'.op # "other_add_trade") =>
                 next_id' = next_id]_vars

\* Two positions of this portfolio with an id between them that went to a
\* Trade of another portfolio, and a rejected open after them.
C13_Witness ==
    /\ Len(trades) = 2
    /\ trades[2].id = trades[1].id + 2
    /\ ~trades[1].is_open
    /\ result.op \in OpenOps
    /\ result.status = "InsufficientBalance"

\* C14: close_trade called with an id that no position of the portfolio has
\* fails with not-found and leaves the portfolio as it was.
C14_CloseUnknownIdFails ==
    [][ ( /\ result'.op = "close_trade"
          /\ ~HasTrade(result'.id) )
        => /\ result'.status = "NotFound"
           /\ result'.num = 0
           /\ pstate' = pstate ]_vars

\* A close has just failed with not-found on an id no position has, while
\* the portfolio holds an open position it could have closed.
C14_Witness ==
    /\ result.op = "close_trade"
    /\ result.status = "NotFound"
    /\ ~HasTrade(result.id)
    /\ open_trades # <<>>

\* C15: closing an open position at a price equal to its entry price, long
\* or short, isolated or cross, returns 0, records realized_pnl 0 on the
\* position and leaves total_balance as it was.
C15_CloseAtEntryIsZero ==
    [][ ( /\ result'.op = "close_trade"
          /\ result'.status = "ok"
          /\ result'.arg = get_trade(result'.id).entry_price )
        => /\ result'.num = 0
           /\ trades'[TradeIndex(result'.id)].realized_pnl = 0
           /\ ~trades'[TradeIndex(result'.id)].is_open
           /\ total_balance' = total_balance ]_vars

\* A position of positive size has just been closed at its entry price.
C15_Witness ==
    /\ result.op = "close_trade"
    /\ result.status = "ok"
    /\ HasTrade(result.id)
    /\ result.arg = get_trade(result.id).entry_price
    /\ get_trade(result.id).qty > 0
    /\ ~get_trade(result.id).is_open

\* The requirements of the positions at the indices S, each at the price the
\* mapping holds for its symbol when the symbol is in the mapping, whatever
\* that price is, and at its entry price otherwise.
RECURSIVE MarkedMmrSum(_, _)
MarkedMmrSum(S, prices) ==
    IF S = {} THEN 0
    ELSE LET i == CHOOSE k \in S : TRUE
             t == trades[i]
         IN  calc_mmr(t.qty, Get(MmrPrice(t, prices)), t.mmf)
             + MarkedMmrSum(S \ {i}, prices)

\* C16: mmrOther evaluates each other open position at the mapping's price
\* for its symbol whenever the symbol is in the mapping, a price of 0
\* included, and at the position's entry price only when the symbol is absent
\* or no mapping is given.
C16_MarkPriceUsedWhenPresent ==
    \A i \in DOMAIN trades, prices \in PriceMaps :
        calc_mmr_other(trades[i].id, prices) = MarkedMmrSum(OtherOpen(i), prices)

\* C17: a successful close of the open position p at price c returns
\* (c - entry) * qty for a long and (entry - c) * qty for a short; after it
\* total_balance is greater by exactly that P&L and available_balance by
\* exactly p.margin plus that P&L; every other position and initial_balance
\* are as they were.
C17_CloseRealizesPnl ==
    [][ ( /\ result'.op = "close_trade"
          /\ result'.status = "ok" )
        => LET i == TradeIndex(result'.id)
               p == trades[i]
               c == result'.arg
               pnl == IF p.side = "long"
                      THEN (c - p.entry_price) * p.qty
                      ELSE (p.entry_price - c) * p.qty
           IN  /\ p.is_open
               /\ result'.num = pnl
               /\ total_balance' = total_balance + pnl
               /\ available_balance' = available_balance + p.margin + pnl
               /\ initial_balance' = initial_balance
               /\ Len(trades') = Len(trades)
               /\ \A j \in DOMAIN trades : j # i => trades'[j] = trades[j] ]_vars

\* A short position has just been closed away from its entry price, with a
\* P&L other than 0, next to another position that is still open.
C17_Witness ==
    /\ result.op = "close_trade"
    /\ result.status = "ok"
    /\ result.num # 0
    /\ HasTrade(result.id)
    /\ get_trade(result.id).side = "short"
    /\ get_trade(result.id).realized_pnl = result.num
    /\ \E j \in DOMAIN trades : trades[j].id # result.id /\ trades[j].is_open

====
